---- MODULE Spec2Model ----
(***************************************************************************)
(* A model of src/training/train.py, the training pipeline of the pypi     *)
(* insights recommender: the identifier mapper, the interaction table      *)
(* builder, the coverage-preserving splitter, the evaluator and the        *)
(* artifact publisher.  Every component is modelled as the Python code     *)
(* computes it, exceptions included: the exception a component raises is   *)
(* the value of the variable error when the component is done.             *)
(***************************************************************************)
EXTENDS Integers, Sequences, FiniteSets, TLC

(***************************************************************************)
(* Bounds of the model.                                                    *)
(***************************************************************************)
MaxManifests == 2
MaxManifestLen == 2
Names == {"a", "b", "c"}
MaxUsers == 2
MaxItems == 3
MaxRows == 3
MaxM == 2
MaxCalls == 2
MaxVersions == 3

(***************************************************************************)
(* Constants of the program.                                               *)
(***************************************************************************)
TrainTarget == 80          \* 0.80, in hundredths
TwoDecimals == 100         \* round(..., 2) and "%.2f": hundredths
DefaultPrevRecall == 55    \* 0.55, in hundredths

(***************************************************************************)
(* Python values.  A Python object is modelled with its type, so that a    *)
(* dictionary lookup, a range() or a Fraction() of a value of the wrong    *)
(* type behaves as in Python: a str key never equals an int key.           *)
(***************************************************************************)
PyStr(s) == <<"str", s>>
PyInt(n) == <<"int", n>>
TypeOf(v) == v[1]
ValOf(v) == v[2]

SeqsUpTo(S, n) == UNION {[1..k -> S] : k \in 0..n}

RECURSIVE Flatten(_)
Flatten(ll) == IF ll = <<>> THEN <<>> ELSE Head(ll) \o Flatten(Tail(ll))

Range(s) == {s[i] : i \in 1..Len(s)}

VARIABLES
    pc,                \* the position of the component under analysis
    error,             \* the exception the component raised, "none" when it returned
    manifest_list,     \* the (trimmed) manifests: a sequence of sequences of names
    pk,                \* generate_package_id_dict: names visited so far by the two loops
    package_id_dict,   \* generate_package_id_dict: the dictionary being built
    count,             \* generate_package_id_dict: the next id
    manifest_id_dict,  \* the result of generate_manifest_id_dict
    user_item_list,    \* the result of make_user_item_df
    data_df,           \* train_test_split: the interaction table (local data_df)
    train_df,          \* train_test_split: the train set
    test_df,           \* train_test_split: the test set
    recommender,       \* the fitted model: topN of each user, as the model returns it
    m,                 \* the evaluator's cutoff
    metrics,           \* what the evaluator returned
    storage,           \* the bucket: which objects exist, and written by which call
    pre_storage,       \* the bucket as the last call of the publisher found it
    writes,            \* the writes the last call of the publisher attempted
    calls,             \* the number of calls made to the publisher
    listing,           \* create_git_pr: versions with a hyperparameters.json in the bucket
    model_version,     \* create_git_pr: the version of this run
    recall_at_30,      \* create_git_pr: recall@30 of this run, in hundredths
    prev_hyperparams,  \* create_git_pr: the previous run's hyperparameters object
    proc_outcome,      \* create_git_pr: how the subprocess ends when it is started
    github_token,      \* train_model: whether GITHUB_TOKEN is set
    invoked,           \* create_git_pr: whether the subprocess was started
    killed             \* create_git_pr: whether the subprocess was killed

varsMap == <<manifest_list, pk, package_id_dict, count, manifest_id_dict, user_item_list>>
varsSplit == <<data_df, train_df, test_df>>
varsEval == <<recommender, m, metrics>>
varsStore == <<storage, pre_storage, writes, calls>>
varsPR == <<listing, model_version, recall_at_30, prev_hyperparams, proc_outcome,
            github_token, invoked, killed>>

vars == <<pc, error, varsMap, varsSplit, varsEval, varsStore, varsPR>>

None == <<"NoneType", "None">>

EmptyDict == [x \in {} |-> 0]

(***************************************************************************)
(* generate_package_id_dict (lines 89-98).  The two nested for loops visit *)
(* the names of Flatten(manifest_list) in order; PkgVisit is the body of   *)
(* the inner loop.                                                         *)
(***************************************************************************)
PkgVisitAlways(st, package_name) ==
    [dict |-> (package_name :> PyInt(st.count)) @@ st.dict, count |-> st.count + 1]

PkgVisit(st, package_name) ==
    IF package_name \notin DOMAIN st.dict
    THEN [dict |-> st.dict @@ (package_name :> PyInt(st.count)), count |-> st.count + 1]
    ELSE st

RECURSIVE PkgFold(_, _)
PkgFold(st, names) ==
    IF names = <<>> THEN st ELSE PkgFold(PkgVisit(st, Head(names)), Tail(names))

generate_package_id_dict(ml) ==
    PkgFold([dict |-> EmptyDict, count |-> 0], Flatten(ml)).dict

IdleMap ==
    /\ manifest_list = <<>>
    /\ pk = 0
    /\ package_id_dict = None
    /\ count = 0
    /\ manifest_id_dict = None
    /\ user_item_list = None

IdleSplit ==
    /\ data_df = None
    /\ train_df = None
    /\ test_df = None

IdleEval ==
    /\ recommender = None
    /\ m = 0
    /\ metrics = None

IdleStore ==
    /\ storage = <<>>
    /\ pre_storage = <<>>
    /\ writes = <<>>
    /\ calls = 0

IdlePR ==
    /\ listing = {}
    /\ model_version = 0
    /\ recall_at_30 = 0
    /\ prev_hyperparams = <<>>
    /\ proc_outcome = "none"
    /\ github_token = FALSE
    /\ invoked = FALSE
    /\ killed = FALSE

ManifestLists ==
    SeqsUpTo({[i \in 1..Len(mf) |-> PyStr(mf[i])] : mf \in SeqsUpTo(Names, MaxManifestLen)},
             MaxManifests)

InitPkg ==
    /\ manifest_list \in ManifestLists
    /\ pk = 0
    /\ package_id_dict = EmptyDict
    /\ count = 0
    /\ pc = "pkg_loop"
    /\ error = "none"
    /\ manifest_id_dict = None
    /\ user_item_list = None
    /\ IdleSplit /\ IdleEval /\ IdleStore /\ IdlePR

PkgLoopStep ==
    /\ pc = "pkg_loop"
    /\ pk < Len(Flatten(manifest_list))
    /\ LET st == PkgVisit([dict |-> package_id_dict, count |-> count],
                          Flatten(manifest_list)[pk + 1])
       IN /\ package_id_dict' = st.dict
          /\ count' = st.count
    /\ pk' = pk + 1
    /\ UNCHANGED <<manifest_list, pc, error, manifest_id_dict, user_item_list,
                   varsSplit, varsEval, varsStore, varsPR>>

PkgReturn ==
    /\ pc = "pkg_loop"
    /\ pk = Len(Flatten(manifest_list))
    /\ pc' = "pkg_done"
    /\ UNCHANGED <<manifest_list, pk, package_id_dict, count, error, manifest_id_dict,
                   user_item_list, varsSplit, varsEval, varsStore, varsPR>>

NextPkg == PkgLoopStep \/ PkgReturn

SpecPkg == InitPkg /\ [][NextPkg]_vars

(***************************************************************************)
(* C7: after any prefix of the input, the dictionary holds exactly the     *)
(* names seen so far, their ids are exactly 0..n-1 with no id shared, and  *)
(* the id of a name is the number of distinct names that occur before its  *)
(* first occurrence: first-occurrence order, which later input cannot      *)
(* change since it depends on the input before the first occurrence only.  *)
(***************************************************************************)
FirstIdx(s, x) == CHOOSE i \in 1..Len(s) : s[i] = x /\ \A j \in 1..(i - 1) : s[j] # x

C7_FirstOccurrenceIds ==
    pc \in {"pkg_loop", "pkg_done"} =>
        LET flat == Flatten(manifest_list)
            seen == {flat[i] : i \in 1..pk}
            n == Cardinality(seen)
        IN /\ DOMAIN package_id_dict = seen
           /\ count = n
           /\ {package_id_dict[x] : x \in seen} = {PyInt(i) : i \in 0..(n - 1)}
           /\ \A x, y \in seen : x # y => package_id_dict[x] # package_id_dict[y]
           /\ \A x \in seen :
                package_id_dict[x] =
                    PyInt(Cardinality({flat[j] : j \in 1..(FirstIdx(flat, x) - 1)}))

C7_Witness ==
    /\ pc = "pkg_done"
    /\ LET flat == Flatten(manifest_list)
       IN \E i, j, l \in 1..Len(flat) :
            i < j /\ j < l /\ flat[i] = flat[l] /\ flat[j] # flat[i]
    /\ Len(manifest_list) = 2

(***************************************************************************)
(* generate_manifest_id_dict (lines 112-122).  list(package_set) holds the *)
(* elements of the set in an order Python does not specify: every order is *)
(* a possible outcome.                                                     *)
(***************************************************************************)
Orderings(S) == {s \in [1..Cardinality(S) -> S] : Range(s) = S}

PackageSet(manifest, pid) == {pid[manifest[i]] : i \in 1..Len(manifest)}

generate_manifest_id_dict(ml, pid) ==
    LET keys == {PyInt(i - 1) : i \in 1..Len(ml)}
        lists == UNION {Orderings(PackageSet(ml[i], pid)) : i \in 1..Len(ml)}
    IN {d \in [keys -> lists] :
          \A i \in 1..Len(ml) : d[PyInt(i - 1)] \in Orderings(PackageSet(ml[i], pid))}

(***************************************************************************)
(* make_user_item_df (lines 72-86).  manifest_dict.items() yields the keys *)
(* in insertion order, which is the order of the manifest ids.  The lookup *)
(* package_dict[package] raises KeyError when package is no key of         *)
(* package_dict, and the function then returns nothing.                    *)
(***************************************************************************)
ItemsOf(manifest_dict) ==
    Flatten([i \in 1..Cardinality(DOMAIN manifest_dict) |->
                [j \in 1..Len(manifest_dict[PyInt(i - 1)]) |->
                    <<PyInt(i - 1), manifest_dict[PyInt(i - 1)][j]>>]])

DictLookup(d, key) ==
    IF key \in DOMAIN d THEN [error |-> "none", value |-> d[key]]
    ELSE [error |-> "KeyError", value |-> None]

RECURSIVE UserItemFold(_, _, _)
UserItemFold(acc, items, package_dict) ==
    IF items = <<>> THEN [error |-> "none", value |-> acc]
    ELSE LET k == Head(items)[1]
             package == Head(items)[2]
             user_id == PyInt(ValOf(k))
             item_id == DictLookup(package_dict, package)
         IN IF item_id.error # "none" THEN [error |-> item_id.error, value |-> None]
            ELSE UserItemFold(
                     Append(acc, [UserId |-> user_id, ItemId |-> item_id.value,
                                  Count |-> PyInt(1)]),
                     Tail(items), package_dict)

make_user_item_df(manifest_dict, package_dict) ==
    UserItemFold(<<>>, ItemsOf(manifest_dict), package_dict)

InitTable ==
    /\ manifest_list \in ManifestLists
    /\ pk = 0
    /\ package_id_dict = None
    /\ count = 0
    /\ manifest_id_dict = None
    /\ user_item_list = None
    /\ pc = "preprocess"
    /\ error = "none"
    /\ IdleSplit /\ IdleEval /\ IdleStore /\ IdlePR

\* preprocess_raw_data, lines 154-156: the two dictionaries of the trimmed manifests
PreprocessRawData ==
    /\ pc = "preprocess"
    /\ package_id_dict' = generate_package_id_dict(manifest_list)
    /\ manifest_id_dict' \in generate_manifest_id_dict(manifest_list, package_id_dict')
    /\ pc' = "make_df"
    /\ UNCHANGED <<manifest_list, pk, count, user_item_list, error,
                   varsSplit, varsEval, varsStore, varsPR>>

\* train_model, line 352
MakeUserItemDf ==
    /\ pc = "make_df"
    /\ LET r == make_user_item_df(manifest_id_dict, package_id_dict)
       IN /\ user_item_list' = r.value
          /\ error' = r.error
    /\ pc' = "table_done"
    /\ UNCHANGED <<manifest_list, pk, package_id_dict, count, manifest_id_dict,
                   varsSplit, varsEval, varsStore, varsPR>>

NextTable == PreprocessRawData \/ MakeUserItemDf

SpecTable == InitTable /\ [][NextTable]_vars

(***************************************************************************)
(* C8: make_user_item_df raises no error and emits, for each manifest id   *)
(* and each package id of its set, exactly one record (UserId = manifest   *)
(* id, ItemId = package id, Count = 1), and no other record: the number of *)
(* records is the sum of the sizes of the package sets.                    *)
(***************************************************************************)
RECURSIVE SumLen(_)
SumLen(ll) == IF ll = <<>> THEN 0 ELSE Len(Head(ll)) + SumLen(Tail(ll))

C8_OneRecordPerPair ==
    pc = "table_done" =>
        /\ error = "none"
        /\ user_item_list # None
        /\ Len(user_item_list) =
             SumLen([i \in 1..Cardinality(DOMAIN manifest_id_dict) |->
                        manifest_id_dict[PyInt(i - 1)]])
        /\ \A k \in DOMAIN manifest_id_dict :
             \A p \in Range(manifest_id_dict[k]) :
                Cardinality({i \in 1..Len(user_item_list) :
                    user_item_list[i] = [UserId |-> k, ItemId |-> p, Count |-> PyInt(1)]}) = 1

(***************************************************************************)
(* The coverage-preserving splitter: extra_df (lines 160-167) and          *)
(* train_test_split (lines 170-185).  A DataFrame is its sequence of rows; *)
(* a row is a record of UserId, ItemId and Count.                          *)
(***************************************************************************)
Users == 0..(MaxUsers - 1)
Items == 0..(MaxItems - 1)
Rows == {[UserId |-> u, ItemId |-> i, Count |-> 1] : u \in Users, i \in Items}

DataFrame(rows) == <<"DataFrame", rows>>
RowsOf(df) == ValOf(df)
RowSet(df) == Range(RowsOf(df))
Concat(df1, df2) == DataFrame(RowsOf(df1) \o RowsOf(df2))
LenIndex(df) == PyInt(Len(RowsOf(df)))

\* df.sample(frac=1): the rows in any order
Sample(df) ==
    LET rows == RowsOf(df)
    IN {DataFrame([i \in 1..Len(rows) |-> rows[p[i]]]) : p \in Permutations(1..Len(rows))}

RECURSIVE KeepIdx(_, _, _)
KeepIdx(rows, keep, i) ==
    IF i > Len(rows) THEN <<>>
    ELSE (IF i \in keep THEN <<rows[i]>> ELSE <<>>) \o KeepIdx(rows, keep, i + 1)

\* df.drop_duplicates(['UserId']): the first row of each user
DropDuplicatesUser(df) ==
    LET rows == RowsOf(df)
    IN DataFrame(KeepIdx(rows, {i \in 1..Len(rows) :
                     \A j \in 1..(i - 1) : rows[j].UserId # rows[i].UserId}, 1))

\* df.drop_duplicates(['ItemId']): the first row of each item
DropDuplicatesItem(df) ==
    LET rows == RowsOf(df)
    IN DataFrame(KeepIdx(rows, {i \in 1..Len(rows) :
                     \A j \in 1..(i - 1) : rows[j].ItemId # rows[i].ItemId}, 1))

\* df.drop_duplicates(): the first of equal rows
DropDuplicates(df) ==
    LET rows == RowsOf(df)
    IN DataFrame(KeepIdx(rows, {i \in 1..Len(rows) :
                     \A j \in 1..(i - 1) : rows[j] # rows[i]}, 1))

\* df.drop_duplicates(keep=False): the rows that occur once
DropDuplicatesKeepFalse(df) ==
    LET rows == RowsOf(df)
    IN DataFrame(KeepIdx(rows, {i \in 1..Len(rows) :
                     \A j \in 1..Len(rows) : j # i => rows[j] # rows[i]}, 1))

\* df[:n]
HeadRows(df, n) ==
    DataFrame(SubSeq(RowsOf(df), 1, IF n < Len(RowsOf(df)) THEN n ELSE Len(RowsOf(df))))

\* fractions.Fraction(numerator, denominator): both arguments must be Rational
\* instances (ints here), any other type raises TypeError
Fraction(numerator, denominator) ==
    IF TypeOf(numerator) # "int" \/ TypeOf(denominator) # "int"
    THEN [error |-> "TypeError", value |-> None]
    ELSE IF ValOf(denominator) = 0
    THEN [error |-> "ZeroDivisionError", value |-> None]
    ELSE [error |-> "none", value |-> <<ValOf(numerator), ValOf(denominator)>>]

\* round() to the nearest integer of n/d, d > 0 and n >= 0, halves to the even one
RoundHalfEven(n, d) ==
    LET q == n \div d
        r == n % d
    IN IF 2 * r < d THEN q
       ELSE IF 2 * r > d THEN q + 1
       ELSE IF q % 2 = 0 THEN q ELSE q + 1

\* round(fraction, 2), in hundredths
Round2(frac) == RoundHalfEven(TwoDecimals * frac[1], frac[2])

\* extra_df, lines 162-167: the results, one for each outcome of the shuffle.
\* frac is in hundredths, and so is remain_frac.
extra_df(frac, data, train) ==
    LET remain_frac == TrainTarget - frac
        len_df == ValOf(LenIndex(data))
        no_rows == RoundHalfEven(remain_frac * len_df, TwoDecimals)
        df_remain == DropDuplicatesKeepFalse(Concat(data, train))
    IN {HeadRows(df_remain_rand, no_rows) : df_remain_rand \in Sample(df_remain)}

Tables == {DataFrame(CHOOSE s \in Orderings(S) : TRUE) :
              S \in {T \in SUBSET Rows : Cardinality(T) <= MaxRows}}

InitSplit ==
    /\ data_df \in Tables
    /\ train_df = None
    /\ test_df = None
    /\ pc = "split"
    /\ error = "none"
    /\ IdleMap /\ IdleEval /\ IdleStore /\ IdlePR

\* train_test_split, lines 172-176: the two shuffles and the coverage subsets
SplitCoverage ==
    /\ pc = "split"
    /\ \E shuffle1 \in Sample(data_df) :
         \E shuffle2 \in Sample(shuffle1) :
            LET df_user == DropDuplicatesUser(shuffle1)
                df_item == DropDuplicatesItem(shuffle2)
            IN /\ data_df' = shuffle2
               /\ train_df' = DropDuplicates(Concat(df_user, df_item))
    /\ pc' = "split_fraction"
    /\ UNCHANGED <<test_df, error, varsMap, varsEval, varsStore, varsPR>>

\* train_test_split, lines 177-185: the fraction, the top-up and the test set
SplitFraction ==
    /\ pc = "split_fraction"
    /\ LET f == Fraction(data_df, train_df)
       IN IF f.error # "none"
          THEN /\ error' = f.error
               /\ train_df' = None
               /\ test_df' = None
          ELSE LET fraction == Round2(f.value)
               IN /\ error' = "none"
                  /\ \E df_ \in (IF fraction < TrainTarget
                                  THEN extra_df(fraction, data_df, train_df)
                                  ELSE {DataFrame(<<>>)}) :
                        /\ train_df' = Concat(train_df, df_)
                        /\ test_df' = DropDuplicatesKeepFalse(Concat(data_df, train_df'))
    /\ pc' = "split_done"
    /\ UNCHANGED <<data_df, varsMap, varsEval, varsStore, varsPR>>

NextSplit == SplitCoverage \/ SplitFraction

SpecSplit == InitSplit /\ [][NextSplit]_vars

(***************************************************************************)
(* C1: train_test_split returns a train set that holds at least one row of *)
(* every UserId and at least one row of every ItemId of the full table.    *)
(***************************************************************************)
C1_TrainCoversUsersAndItems ==
    pc = "split_done" =>
        /\ error = "none"
        /\ TypeOf(train_df) = "DataFrame"
        /\ \A r \in RowSet(data_df) :
             /\ \E t \in RowSet(train_df) : t.UserId = r.UserId
             /\ \E t \in RowSet(train_df) : t.ItemId = r.ItemId

(***************************************************************************)
(* C2: train_test_split returns a train set and a test set that are        *)
(* disjoint, whose union is the full table, and no row is twice in train.  *)
(***************************************************************************)
C2_TrainTestPartition ==
    pc = "split_done" =>
        /\ error = "none"
        /\ TypeOf(train_df) = "DataFrame" /\ TypeOf(test_df) = "DataFrame"
        /\ RowSet(train_df) \cap RowSet(test_df) = {}
        /\ RowSet(train_df) \cup RowSet(test_df) = RowSet(data_df)
        /\ Cardinality(RowSet(train_df)) = Len(RowsOf(train_df))

(***************************************************************************)
(* The evaluator: recall_at_m (lines 205-217), precision_at_m (lines       *)
(* 220-233) and precision_recall_at_m (lines 236-246).  A number is a      *)
(* rational <<numerator, denominator>>.                                    *)
(***************************************************************************)
RatAdd(x, y) == <<x[1] * y[2] + y[1] * x[2], x[2] * y[2]>>
RatEq(x, y) == x[1] * y[2] = y[1] * x[2]

RECURSIVE RatSum(_)
RatSum(xs) == IF xs = <<>> THEN <<0, 1>> ELSE RatAdd(Head(xs), RatSum(Tail(xs)))

Float(x) == <<"float", x>>
NaN == <<"float", "nan">>
Dict(d) == <<"dict", d>>

\* np.mean: nan of an empty list, the mean of numbers, TypeError when the
\* elements cannot be added and divided (dictionaries)
np_mean(xs) ==
    IF xs = <<>> THEN [error |-> "none", value |-> NaN]
    ELSE IF \A i \in 1..Len(xs) : TypeOf(xs[i]) = "float"
    THEN [error |-> "none",
          value |-> Float(LET sum == RatSum([i \in 1..Len(xs) |-> ValOf(xs[i])])
                          IN <<sum[1], sum[2] * Len(xs)>>)]
    ELSE [error |-> "TypeError", value |-> None]

\* x = np.array(test_df.loc[test_df.UserId.isin([i])].ItemId)
TestItems(test, i) ==
    LET rows == RowsOf(test)
    IN KeepIdx([j \in 1..Len(rows) |-> rows[j].ItemId],
               {j \in 1..Len(rows) : rows[j].UserId = i}, 1)

\* np.intersect1d(x, recommendations).size
IntersectSize(x, recommendations) == Cardinality(Range(x) \cap Range(recommendations))

\* the loop of recall_at_m, lines 208-216, from user i on
RECURSIVE RecallLoop(_, _, _, _)
RecallLoop(i, user_count, test, rec) ==
    IF i >= user_count THEN <<>>
    ELSE LET x == TestItems(test, i)
             rec_l == Len(x)
             intersection_length == IntersectSize(x, rec[i])
         IN (IF rec_l = 0 THEN <<>>
             ELSE <<Dict([recall |-> <<intersection_length, rec_l>>,
                          length |-> rec_l, user |-> i])>>)
            \o RecallLoop(i + 1, user_count, test, rec)

recall_at_m(cutoff, test, rec, user_count) ==
    IF TypeOf(user_count) # "int" THEN [error |-> "TypeError", value |-> None]
    ELSE np_mean(RecallLoop(0, ValOf(user_count), test, rec))

\* the loop of precision_at_m, lines 223-232, from user i on
RECURSIVE PrecisionLoop(_, _, _, _)
PrecisionLoop(i, user_count, test, rec) ==
    IF i >= user_count THEN <<>>
    ELSE LET x == TestItems(test, i)
             r_size == Len(rec[i])
             intersection_length == IntersectSize(x, rec[i])
         IN (IF r_size = 0 THEN <<>>
             ELSE <<Dict([precision |-> <<intersection_length, r_size>>,
                          length |-> r_size, user |-> i])>>)
            \o PrecisionLoop(i + 1, user_count, test, rec)

precision_at_m(cutoff, test, rec, user_count) ==
    IF TypeOf(user_count) # "int" THEN [error |-> "TypeError", value |-> None]
    ELSE np_mean(PrecisionLoop(0, ValOf(user_count), test, rec))

\* user_item_df.groupby("UserId").size, line 238: the method, not called
GroupBySize(df) == <<"method", "size">>

\* user_item_df["UserId"].nunique(): the number of users, an int
NUnique(df) == PyInt(Cardinality({r.UserId : r \in RowSet(df)}))

precision_recall_at_m(cutoff, test, rec, user_item_df) ==
    LET user_count == GroupBySize(user_item_df)
        precision == precision_at_m(cutoff, test, rec, user_count)
        recall == recall_at_m(cutoff, test, rec, user_count)
    IN IF precision.error = "ValueError" THEN [error |-> "none", value |-> None]
       ELSE IF precision.error # "none" THEN [error |-> precision.error, value |-> None]
       ELSE IF recall.error = "ValueError" THEN [error |-> "none", value |-> None]
       ELSE IF recall.error # "none" THEN [error |-> recall.error, value |-> None]
       ELSE [error |-> "none", value |-> <<precision.value, recall.value>>]

SubTables(df) == {DataFrame(KeepIdx(RowsOf(df), keep, 1)) : keep \in SUBSET (1..Len(RowsOf(df)))}

\* topN(user=i, n=m, exclude_seen=True) of every user: at most m items, none twice
Recommenders(cutoff) ==
    [Users -> UNION {Orderings(S) : S \in {T \in SUBSET Items : Cardinality(T) <= cutoff}}]

InitEval ==
    /\ data_df \in Tables
    /\ train_df = None
    /\ test_df \in SubTables(data_df)
    /\ m \in 1..MaxM
    /\ recommender \in Recommenders(m)
    /\ metrics = None
    /\ pc = "evaluate"
    /\ error = "none"
    /\ IdleMap /\ IdleStore /\ IdlePR

\* train_model, lines 357-360
PrecisionRecallAtM ==
    /\ pc = "evaluate"
    /\ LET r == precision_recall_at_m(m, test_df, recommender, data_df)
       IN /\ metrics' = r.value
          /\ error' = r.error
    /\ pc' = "precision_recall_at_m_done"
    /\ UNCHANGED <<recommender, m, varsSplit, varsMap, varsStore, varsPR>>

\* recall_at_m called with the number of users
RecallAtM ==
    /\ pc = "evaluate"
    /\ LET r == recall_at_m(m, test_df, recommender, NUnique(data_df))
       IN /\ metrics' = r.value
          /\ error' = r.error
    /\ pc' = "recall_at_m_done"
    /\ UNCHANGED <<recommender, m, varsSplit, varsMap, varsStore, varsPR>>

\* precision_at_m called with the number of users
PrecisionAtM ==
    /\ pc = "evaluate"
    /\ LET r == precision_at_m(m, test_df, recommender, NUnique(data_df))
       IN /\ metrics' = r.value
          /\ error' = r.error
    /\ pc' = "precision_at_m_done"
    /\ UNCHANGED <<recommender, m, varsSplit, varsMap, varsStore, varsPR>>

NextEval == PrecisionRecallAtM \/ RecallAtM \/ PrecisionAtM

SpecEval == InitEval /\ [][NextEval]_vars

(***************************************************************************)
(* C9: the evaluator raises no error; recall@M is the arithmetic mean of   *)
(* |truth /\ recommended| / |truth| over the users of [0, user_count) with  *)
(* a non-empty truth set, and precision@M the mean of |truth /\             *)
(* recommended| / |recommended| over the users with a recommendation.      *)
(***************************************************************************)
Truth(i) == {r.ItemId : r \in {t \in RowSet(test_df) : t.UserId = i}}
Recommended(i) == Range(recommender[i])
UserIds == 0..(ValOf(NUnique(data_df)) - 1)

RECURSIVE SumOver(_, _)
SumOver(S, ratio) ==
    IF S = {} THEN <<0, 1>>
    ELSE LET i == CHOOSE j \in S : TRUE
         IN RatAdd(ratio[i], SumOver(S \ {i}, ratio))

IsMeanOver(value, S, ratio) ==
    /\ TypeOf(value) = "float"
    /\ ValOf(value) # "nan"
    /\ LET sum == SumOver(S, ratio)
       IN RatEq(ValOf(value), <<sum[1], sum[2] * Cardinality(S)>>)

IsRecallMean(value) ==
    LET S == {i \in UserIds : Truth(i) # {}}
        ratio == [i \in S |-> <<Cardinality(Truth(i) \cap Recommended(i)),
                                 Cardinality(Truth(i))>>]
    IN S # {} => IsMeanOver(value, S, ratio)

IsPrecisionMean(value) ==
    LET S == {i \in UserIds : Recommended(i) # {}}
        ratio == [i \in S |-> <<Cardinality(Truth(i) \cap Recommended(i)),
                                 Cardinality(Recommended(i))>>]
    IN S # {} => IsMeanOver(value, S, ratio)

C9_MeansOverNonZeroDenominators ==
    /\ pc = "recall_at_m_done" => error = "none" /\ IsRecallMean(metrics)
    /\ pc = "precision_at_m_done" => error = "none" /\ IsPrecisionMean(metrics)
    /\ pc = "precision_recall_at_m_done" =>
            /\ error = "none"
            /\ metrics # None
            /\ IsPrecisionMean(metrics[1])
            /\ IsRecallMean(metrics[2])

(***************************************************************************)
(* The artifact publisher: save_model (lines 249-255), save_dictionaries   *)
(* (lines 258-270), save_hyperparams (lines 273-278) and save_obj (lines   *)
(* 281-297).  The bucket is the set of its objects, each with the call     *)
(* that wrote it (0: it was there before the first call).  A write of the  *)
(* storage client ends "ok" (the object is stored, the status is truthy),  *)
(* "failed" (nothing is stored, the status is falsy) or, for the model,    *)
(* "raised" (nothing is stored, the client raises).                        *)
(***************************************************************************)
PACKAGE_TO_ID_MAP == "PACKAGE_TO_ID_MAP"
MANIFEST_TO_ID_MAP == "MANIFEST_TO_ID_MAP"
HPF_MODEL_PATH == "HPF_MODEL_PATH"
HYPERPARAMETERS_PATH == "HYPERPARAMETERS_PATH"
Paths == {PACKAGE_TO_ID_MAP, MANIFEST_TO_ID_MAP, HPF_MODEL_PATH, HYPERPARAMETERS_PATH}
MapPaths == {PACKAGE_TO_ID_MAP, MANIFEST_TO_ID_MAP}

StoreError == "Unable to store data files for scoring"
HyperparamsError == "Unable to store hyperparameters file"

Absent == [exists |-> FALSE, writer |-> 0]
Present(call) == [exists |-> TRUE, writer |-> call]

object_exists(bucket, path) == bucket[path].exists

\* a write of the client: st is [bucket, log, error], the write is logged
Write(st, path, outcome, call) ==
    [bucket |-> IF outcome = "ok" THEN [st.bucket EXCEPT ![path] = Present(call)]
                ELSE st.bucket,
     log |-> Append(st.log, [path |-> path, outcome |-> outcome]),
     error |-> st.error]

Status(outcome) == outcome = "ok"

\* save_model: the status is logged, an exception of the client is logged
save_model(st, o_model, call) == Write(st, HPF_MODEL_PATH, o_model, call)

MappingsMissingUnchecked(bucket) == TRUE

\* save_dictionaries, lines 260-261
MappingsMissing(bucket) ==
    ~(object_exists(bucket, PACKAGE_TO_ID_MAP) /\ object_exists(bucket, MANIFEST_TO_ID_MAP))

\* save_dictionaries, line 267
UnableToStore(pkg_status, mnf_status) == (~pkg_status) \/ mnf_status

save_dictionaries(st, o_pkg, o_mnf, call) ==
    IF MappingsMissing(st.bucket)
    THEN LET st1 == Write(st, PACKAGE_TO_ID_MAP, o_pkg, call)
             st2 == Write(st1, MANIFEST_TO_ID_MAP, o_mnf, call)
         IN IF UnableToStore(Status(o_pkg), Status(o_mnf))
            THEN [st2 EXCEPT !.error = StoreError]
            ELSE st2
    ELSE st

save_hyperparams(st, o_hyp, call) ==
    LET st1 == Write(st, HYPERPARAMETERS_PATH, o_hyp, call)
    IN IF ~Status(o_hyp) THEN [st1 EXCEPT !.error = HyperparamsError] ELSE st1

save_obj(st, o_model, o_pkg, o_mnf, o_hyp, call) ==
    LET st1 == save_model(st, o_model, call)
        st2 == save_dictionaries(st1, o_pkg, o_mnf, call)
    IN IF st2.error # "none" THEN st2
       ELSE save_hyperparams(st2, o_hyp, call)

JsonOutcomes == {"ok", "failed"}
PickleOutcomes == {"ok", "failed", "raised"}

InitStore ==
    /\ storage \in [Paths -> {Absent, Present(0)}]
    /\ pre_storage = storage
    /\ writes = <<>>
    /\ calls = 0
    /\ pc = "publish"
    /\ error = "none"
    /\ IdleMap /\ IdleSplit /\ IdleEval /\ IdlePR

SaveDictionaries ==
    /\ calls < MaxCalls
    /\ \E o_pkg \in JsonOutcomes, o_mnf \in JsonOutcomes :
         LET r == save_dictionaries([bucket |-> storage, log |-> <<>>, error |-> "none"],
                                    o_pkg, o_mnf, calls + 1)
         IN /\ storage' = r.bucket
            /\ writes' = r.log
            /\ error' = r.error
    /\ pre_storage' = storage
    /\ calls' = calls + 1
    /\ pc' = "save_dictionaries_done"
    /\ UNCHANGED <<varsMap, varsSplit, varsEval, varsPR>>

SaveObj ==
    /\ calls < MaxCalls
    /\ \E o_model \in PickleOutcomes, o_pkg \in JsonOutcomes, o_mnf \in JsonOutcomes,
          o_hyp \in JsonOutcomes :
         LET r == save_obj([bucket |-> storage, log |-> <<>>, error |-> "none"],
                           o_model, o_pkg, o_mnf, o_hyp, calls + 1)
         IN /\ storage' = r.bucket
            /\ writes' = r.log
            /\ error' = r.error
    /\ pre_storage' = storage
    /\ calls' = calls + 1
    /\ pc' = "save_obj_done"
    /\ UNCHANGED <<varsMap, varsSplit, varsEval, varsPR>>

NextStore == SaveDictionaries \/ SaveObj

SpecStore == InitStore /\ [][NextStore]_vars

Written == {writes[i].path : i \in 1..Len(writes)}
MappingWrites == SelectSeq(writes, LAMBDA w : w.path \in MapPaths)
Called == pc \in {"save_dictionaries_done", "save_obj_done"}

(***************************************************************************)
(* C3, as claimed: a call never writes a mapping object that exists at its *)
(* path before the call.                                                   *)
(***************************************************************************)
C3_ExistingMappingNeverWritten ==
    Called => \A path \in MapPaths : object_exists(pre_storage, path) => path \notin Written

(***************************************************************************)
(* C3, amended: a call writes no mapping object when both mapping objects  *)
(* exist before the call, and otherwise attempts both writes, the package  *)
(* map first, whether or not one of the two exists.                        *)
(***************************************************************************)
C3_NoMappingWriteWhenBothExist ==
    Called =>
        IF object_exists(pre_storage, PACKAGE_TO_ID_MAP)
             /\ object_exists(pre_storage, MANIFEST_TO_ID_MAP)
        THEN MappingWrites = <<>>
        ELSE /\ Len(MappingWrites) = 2
             /\ MappingWrites[1].path = PACKAGE_TO_ID_MAP
             /\ MappingWrites[2].path = MANIFEST_TO_ID_MAP

\* a second call of save_dictionaries that finds the mappings the first call stored
C3_Witness ==
    /\ pc = "save_dictionaries_done"
    /\ calls = 2
    /\ \A path \in MapPaths : pre_storage[path] = Present(1)
    /\ writes = <<>>
    /\ storage = pre_storage

(***************************************************************************)
(* C4: when a call attempts the mapping writes and one of the two reports  *)
(* failure, the call raises the "unable to store" error and the metrics    *)
(* bundle is not written.                                                  *)
(***************************************************************************)
C4_FailedMappingWriteRaises ==
    (Called /\ \E i \in 1..Len(MappingWrites) : MappingWrites[i].outcome = "failed")
        => error = StoreError /\ HYPERPARAMETERS_PATH \notin Written

(***************************************************************************)
(* C5: when every write save_obj attempts reports success, the metrics     *)
(* bundle is written, after the model write and the mapping step, whether  *)
(* or not the mappings existed before.                                     *)
(***************************************************************************)
C5_MetricsAlwaysWritten ==
    (pc = "save_obj_done" /\ \A i \in 1..Len(writes) : writes[i].outcome = "ok")
        => /\ error = "none"
           /\ Len(writes) >= 2
           /\ writes[1].path = HPF_MODEL_PATH
           /\ writes[Len(writes)].path = HYPERPARAMETERS_PATH
           /\ object_exists(storage, HYPERPARAMETERS_PATH)

(***************************************************************************)
(* The deployment proposal: create_git_pr (lines 300-338) as train_model   *)
(* calls it (lines 365-369).  A version is a number, later versions being  *)
(* larger, as the date strings max() compares.  recall@30 is in            *)
(* hundredths.  The object read at line 312 is taken to be the             *)
(* hyperparameters object of previous_version.                             *)
(***************************************************************************)
Versions == 1..MaxVersions
RecallValues == {50, 55, 60}

\* a hyperparameters.json: with or without the key recall_at_30
NoRecallKey == [has_recall |-> FALSE, recall_at_30 |-> 0]
WithRecall(r) == [has_recall |-> TRUE, recall_at_30 |-> r]
Hyperparams == {NoRecallKey} \cup {WithRecall(r) : r \in RecallValues \ {DefaultPrevRecall}}

SetMax(S) == CHOOSE x \in S : \A y \in S : y <= x

\* prev_hyperparams.get('recall_at_30', 0.55), line 317
GetRecall(hp) == IF hp.has_recall THEN hp.recall_at_30 ELSE DefaultPrevRecall

\* lines 319-338: the subprocess is started and waited for (60 s)
RunSubprocess(outcome) ==
    CASE outcome = "exit_0" -> [error |-> "none", invoked |-> TRUE, killed |-> FALSE]
      [] outcome = "exit_nonzero" -> [error |-> "none", invoked |-> TRUE, killed |-> FALSE]
      [] outcome = "timeout" -> [error |-> "TimeoutExpired", invoked |-> TRUE, killed |-> TRUE]
      [] outcome = "value_error" -> [error |-> "ValueError", invoked |-> TRUE, killed |-> FALSE]
      [] outcome = "subprocess_error" ->
            [error |-> "SubprocessError", invoked |-> TRUE, killed |-> FALSE]

create_git_pr(keys, hyperparams, version, recall, outcome) ==
    LET dates == keys
        NotRun(err) == [error |-> err, invoked |-> FALSE, killed |-> FALSE]
    IN IF version \notin dates THEN NotRun("ValueError")            \* dates.remove, line 307
       ELSE IF dates \ {version} = {} THEN NotRun("ValueError")     \* max(dates), line 308
       ELSE LET previous_version == SetMax(dates \ {version})
                prev_recall == GetRecall(hyperparams[previous_version])
            IN IF recall >= prev_recall THEN RunSubprocess(outcome)
               ELSE NotRun("none")

SubprocessOutcomes == {"exit_0", "exit_nonzero", "timeout", "value_error", "subprocess_error"}

InitPR ==
    /\ listing \in SUBSET Versions
    /\ prev_hyperparams \in [listing -> Hyperparams]
    /\ model_version \in Versions
    /\ recall_at_30 \in RecallValues
    /\ proc_outcome \in SubprocessOutcomes
    /\ github_token \in BOOLEAN
    /\ invoked = FALSE
    /\ killed = FALSE
    /\ pc = "publish_pr"
    /\ error = "none"
    /\ IdleMap /\ IdleSplit /\ IdleEval /\ IdleStore

\* train_model, lines 365-369, after save_obj has returned: the error of
\* create_git_pr is logged and raised again
TrainModelCreatePr ==
    /\ pc = "publish_pr"
    /\ LET r == IF github_token
                THEN create_git_pr(listing, prev_hyperparams, model_version,
                                   recall_at_30, proc_outcome)
                ELSE [error |-> "none", invoked |-> FALSE, killed |-> FALSE]
       IN /\ error' = r.error
          /\ invoked' = r.invoked
          /\ killed' = r.killed
    /\ pc' = "pr_done"
    /\ UNCHANGED <<listing, model_version, recall_at_30, prev_hyperparams, proc_outcome,
                   github_token, varsMap, varsSplit, varsEval, varsStore>>

NextPR == TrainModelCreatePr

SpecPR == InitPR /\ [][NextPR]_vars

(***************************************************************************)
(* C6: create_git_pr starts the subprocess if and only if recall@30 of     *)
(* this run is at least the previous run's, which is 0.55 when no previous *)
(* run is in the listing; no error is raised before the comparison.        *)
(***************************************************************************)
C6_InvokedIffRecallNotWorse ==
    (pc = "pr_done" /\ github_token) =>
        LET previous == listing \ {model_version}
            prev_recall == IF previous = {} THEN DefaultPrevRecall
                           ELSE GetRecall(prev_hyperparams[SetMax(previous)])
        IN /\ invoked <=> recall_at_30 >= prev_recall
           /\ error # "none" => invoked

(***************************************************************************)
(* C10: a subprocess that times out or exits with a non-zero code is an    *)
(* error raised to the caller of train_model, after a kill on timeout;     *)
(* the run ends without error only when the subprocess exits 0 or is not   *)
(* started.                                                                *)
(***************************************************************************)
C10_SubprocessFailureRaised ==
    pc = "pr_done" =>
        /\ (invoked /\ proc_outcome \in {"timeout", "exit_nonzero"}) => error # "none"
        /\ (invoked /\ proc_outcome = "timeout") => killed
        /\ error = "none" => (~invoked \/ proc_outcome = "exit_0")
====
